---- MODULE Spec2Model ----
(***************************************************************************)
(* Model of library/cluster_vm.py: one invocation of run_module().  The    *)
(* request (module.params), the importability of vm_manager, the local     *)
(* time zone and the file system are fixed when the invocation starts; the *)
(* steps are the AnsibleModule constructor, the HAS_VM_MANAGER test, the   *)
(* five check_parameters calls, the try block with its single vm_manager   *)
(* call, and exit_json.                                                    *)
(***************************************************************************)
EXTENDS Integers, Sequences, FiniteSets, TLC

\* ------------------------------------------------------------------ bounds
\* purge_number values offered to the module are 1..MaxPurgeNumber
MaxPurgeNumber == 1
\* purge instants offered are minutes 0..MaxMinute after 1970-01-02 00:00
MaxMinute == 1

\* ------------------------------------------------------- Python values
\* Python None for a str parameter that was not supplied
None == "None"
\* An optional non-string value: <<>> is None, <<v>> is the value v
Nothing == <<>>
Some(v) == <<v>>

\* ------------------------------------------------ characters and strings
\* Date, time and ISO 8601 strings are tuples of one-character strings.
Digits == <<"0", "1", "2", "3", "4", "5", "6", "7", "8", "9">>
IsDigit(c) == \E i \in 1..10 : Digits[i] = c
DigitVal(c) == (CHOOSE i \in 1..10 : Digits[i] = c) - 1
AllDigits(s) == \A i \in 1..Len(s) : IsDigit(s[i])
RECURSIVE ParseInt(_)
ParseInt(s) == IF s = <<>> THEN 0
               ELSE 10 * ParseInt(SubSeq(s, 1, Len(s) - 1)) + DigitVal(s[Len(s)])
Pad2(n) == <<Digits[(n \div 10) + 1], Digits[(n % 10) + 1]>>
Pad4(n) == Pad2(n \div 100) \o Pad2(n % 100)

\* --------------------------------------------------------------- calendar
IsLeap(y) == (y % 4 = 0) /\ ((y % 100 # 0) \/ (y % 400 = 0))
DaysInMonth(y, m) == IF m = 2 THEN (IF IsLeap(y) THEN 29 ELSE 28)
                     ELSE IF m \in {4, 6, 9, 11} THEN 30 ELSE 31

\* civil date of the day that is z days after 1970-01-01 (proleptic Gregorian)
CivilFromDays(z) ==
    LET zz  == z + 719468
        era == zz \div 146097
        doe == zz - era * 146097
        yoe == (doe - (doe \div 1460) + (doe \div 36524) - (doe \div 146096)) \div 365
        doy == doe - (365 * yoe + (yoe \div 4) - (yoe \div 100))
        mp  == (5 * doy + 2) \div 153
        d   == doy - ((153 * mp + 2) \div 5) + 1
        m   == IF mp < 10 THEN mp + 3 ELSE mp - 9
        y   == yoe + era * 400 + (IF m <= 2 THEN 1 ELSE 0)
    IN  [year |-> y, month |-> m, day |-> d]

\* A ValueError raised by one of the datetime constructors
ValueError == [error |-> "ValueError"]
IsError(v) == "error" \in DOMAIN v

\* datetime.date.fromisoformat: exactly YYYY-MM-DD with a valid month and day
date_fromisoformat(s) ==
    IF Len(s) # 10 \/ s[5] # "-" \/ s[8] # "-"
       \/ ~AllDigits(SubSeq(s, 1, 4)) \/ ~AllDigits(SubSeq(s, 6, 7))
       \/ ~AllDigits(SubSeq(s, 9, 10))
    THEN ValueError
    ELSE LET y == ParseInt(SubSeq(s, 1, 4))
             m == ParseInt(SubSeq(s, 6, 7))
             d == ParseInt(SubSeq(s, 9, 10))
         IN  IF y < 1 \/ y > 9999 \/ m < 1 \/ m > 12 THEN ValueError
             ELSE IF d < 1 \/ d > DaysInMonth(y, m) THEN ValueError
             ELSE [year |-> y, month |-> m, day |-> d]

\* datetime.time.fromisoformat on the HH:MM strings the module documents
time_fromisoformat(s) ==
    IF Len(s) # 5 \/ s[3] # ":"
       \/ ~AllDigits(SubSeq(s, 1, 2)) \/ ~AllDigits(SubSeq(s, 4, 5))
    THEN ValueError
    ELSE LET h  == ParseInt(SubSeq(s, 1, 2))
             mi == ParseInt(SubSeq(s, 4, 5))
         IN  IF h > 23 \/ mi > 59 THEN ValueError
             ELSE [hour |-> h, minute |-> mi, second |-> 0]

\* datetime.datetime.combine(date, time); an error of either argument is
\* raised before combine is entered
datetime_combine(d, t) ==
    IF IsError(d) \/ IsError(t) THEN ValueError
    ELSE [year |-> d.year, month |-> d.month, day |-> d.day,
          hour |-> t.hour, minute |-> t.minute, second |-> t.second]

\* datetime.datetime.fromisoformat on YYYY-MM-DD<sep>HH:MM strings
datetime_fromisoformat(s) ==
    IF Len(s) # 16 THEN ValueError
    ELSE datetime_combine(date_fromisoformat(SubSeq(s, 1, 10)),
                          time_fromisoformat(SubSeq(s, 12, 16)))

\* The local time zone of the host, in seconds east of UTC
TzOffset == 3600

\* datetime.datetime.fromtimestamp(x): x is a number of SECONDS since the
\* epoch, rendered as naive local time
datetime_fromtimestamp(x) ==
    LET local == x + TzOffset
        days  == local \div 86400
        secs  == local % 86400
        c     == CivilFromDays(days)
    IN  IF c.year < 1 \/ c.year > 9999 THEN ValueError
        ELSE [year |-> c.year, month |-> c.month, day |-> c.day,
              hour |-> secs \div 3600, minute |-> (secs % 3600) \div 60,
              second |-> secs % 60]

\* ------------------------------------------------------- the environment
\* os.path.isfile: the regular files of the host
ExistingFiles == {"/tmp/disk.qcow2"}
\* (mutant: the test always succeeds)
isfile_always(path) == TRUE
isfile(path) == path \in ExistingFiles

\* What the vm_manager operations can return, and the errors they can raise
ReturnValues(op) ==
    CASE op = "list_vms"       -> {<<>>, <<"guest0", "guest1">>}
      [] op = "status"         -> {"Started", "Stopped"}
      [] op = "list_snapshots" -> {<<"snap1">>}
      [] op = "list_metadata"  -> {<<"owner", "xml">>}
      [] op = "get_metadata"   -> {"alice"}
      [] OTHER                 -> {None}
CapabilityErrors == {"VM guest0 does not exist"}

\* ------------------------------------------------------------ the request
commands_list == <<"create", "remove", "start", "stop", "list_vms", "enable",
                   "disable", "status", "clone", "create_snapshot",
                   "remove_snapshot", "list_snapshots", "rollback_snapshot",
                   "purge_image", "list_metadata", "get_metadata">>
Commands == {commands_list[i] : i \in 1..Len(commands_list)}

\* A purge instant is minute m of naive local time on 1970-01-02; these
\* write it in the three encodings the module documents (date and time,
\* ISO 8601, milliseconds since the epoch).
InstantMinute(m) == 1440 + m
InstantCivil(m) == CivilFromDays(InstantMinute(m) \div 1440)
FormatDate(m) == LET c == InstantCivil(m)
                 IN  Pad4(c.year) \o <<"-">> \o Pad2(c.month) \o <<"-">> \o Pad2(c.day)
FormatTime(m) == Pad2((InstantMinute(m) % 1440) \div 60) \o <<":">>
                 \o Pad2(InstantMinute(m) % 60)
FormatIso(m) == FormatDate(m) \o <<"T">> \o FormatTime(m)
PosixMillis(m) == (InstantMinute(m) * 60 - TzOffset) * 1000
\* The datetime value that denotes the instant
CanonicalTimestamp(m) ==
    LET c == InstantCivil(m)
    IN  [year |-> c.year, month |-> c.month, day |-> c.day,
         hour |-> (InstantMinute(m) % 1440) \div 60,
         minute |-> InstantMinute(m) % 60, second |-> 0]
\* A date string that is not a date
MalformedDate == <<"1", "9", "7", "0", "-", "1", "3", "-", "0", "1">>

PurgeKeys == {"date", "time", "iso_8601", "posix"}
\* The purge_date dict with the given keys, every key encoding instant m
PurgeDict(keys, m, malformed) ==
    [k \in keys |->
        CASE k = "date"     -> IF malformed THEN MalformedDate ELSE FormatDate(m)
          [] k = "time"     -> FormatTime(m)
          [] k = "iso_8601" -> IF malformed THEN MalformedDate ELSE FormatIso(m)
          [] k = "posix"    -> PosixMillis(m)]

\* purge_date as supplied: absent, or a dict holding any of the four keys
PurgeDates ==
    {Nothing}
    \cup {Some(PurgeDict(keys, m, FALSE)) : keys \in SUBSET PurgeKeys, m \in 0..MaxMinute}
    \cup {Some(PurgeDict(keys, 0, TRUE)) :
             keys \in {ks \in SUBSET PurgeKeys : "date" \in ks \/ "iso_8601" \in ks}}
PurgeNumbers == {Nothing} \cup {Some(n) : n \in 1..MaxPurgeNumber}

\* Requests that vary every string field, without purge parameters
FieldRequests ==
    [command : Commands \cup {None, "migrate"},
     name : {None, "", "guest0"},
     xml : {None, "", "<xml/>"},
     system_image : {None, "", "/tmp/x.qcow2", "/tmp/disk.qcow2"},
     src_name : {None, "", "guest1"},
     metadata_name : {None, "", "owner"},
     snapshot_name : {None, "", "snap1"},
     force : BOOLEAN, enable : {TRUE}, clear_constraint : {FALSE},
     metadata : {Nothing}, preferred_host : {"host1"}, pinned_host : {None},
     purge_date : {Nothing}, purge_number : {Nothing}]
\* Requests that vary the purge parameters, the name and the image
PurgeRequests ==
    [command : Commands \cup {None, "migrate"},
     name : {None, "", "guest0"},
     xml : {"<xml/>"},
     system_image : {"/tmp/x.qcow2", "/tmp/disk.qcow2"},
     src_name : {"guest1"},
     metadata_name : {"owner"},
     snapshot_name : {"snap1"},
     force : {FALSE}, enable : {TRUE}, clear_constraint : {FALSE},
     metadata : {Nothing}, preferred_host : {"host1"}, pinned_host : {None},
     purge_date : PurgeDates, purge_number : PurgeNumbers]
Requests == FieldRequests \cup PurgeRequests

\* ------------------------------------------------------------------ state
VARIABLES
    params,          \* module.params: the request
    HAS_VM_MANAGER,  \* whether `import vm_manager` succeeded
    pc,              \* position of run_module
    calls,           \* the vm_manager calls made so far
    result,          \* the result dict
    exits            \* the fail_json / exit_json calls made so far
vars == <<params, HAS_VM_MANAGER, pc, calls, result, exits>>

Init ==
    /\ params \in Requests
    /\ HAS_VM_MANAGER \in BOOLEAN
    /\ pc = "AnsibleModule"
    /\ calls = <<>>
    /\ result = <<>>
    /\ exits = <<>>

\* ------------------------------------------------- fail_json / exit_json
Msg(kind, names, text) == [kind |-> kind, names |-> names, text |-> text]
\* module.fail_json(msg=..., exception=...): reports the failure and exits
FailJson(msg, exception) ==
    [call |-> "fail_json", msg |-> msg, exception |-> exception, output |-> <<>>]
\* module.exit_json(**result): reports the result dict and exits
ExitJson(output) ==
    [call |-> "exit_json", msg |-> Msg("", {}, ""), exception |-> FALSE,
     output |-> output]
fail_json(msg, exception) ==
    /\ exits' = Append(exits, FailJson(msg, exception))
    /\ pc' = "done"

\* ------------------------------------------- the AnsibleModule constructor
\* required_if table: the fields the constructor wants supplied per command
required(command) ==
    CASE command = "create" -> <<"name", "xml", "system_image">>
      [] command = "clone"  -> <<"name", "src_name">>
      [] command \in {"remove", "start", "stop", "status", "enable", "disable",
                      "list_metadata", "purge_image", "list_snapshots"}
                            -> <<"name">>
      [] command = "get_metadata" -> <<"name", "metadata_name">>
      [] command \in {"create_snapshot", "remove_snapshot", "rollback_snapshot"}
                            -> <<"name", "snapshot_name">>
      [] OTHER -> <<>>
\* (mutant: the constructor is given no mutually_exclusive rule)
check_mutually_exclusive_off(p) == FALSE
\* mutually_exclusive=[("purge_date", "purge_number")]: both keys supplied
check_mutually_exclusive(p) ==
    p.purge_date # Nothing /\ p.purge_number # Nothing
\* required_if: the required fields of the command that were not supplied
check_required_if(p) ==
    {required(p.command)[i] : i \in 1..Len(required(p.command))}
      \cap {f \in {"name", "xml", "system_image", "src_name", "metadata_name",
                    "snapshot_name"} : p[f] = None}
\* (mutant: the required checks run before the mutually exclusive check)
AnsibleModule_required_first(p) ==
    IF p.command = None
    THEN Some(Msg("required", {"command"}, "missing required arguments"))
    ELSE IF p.command \notin Commands
    THEN Some(Msg("choices", {"command"}, "value of command must be one of"))
    ELSE IF check_required_if(p) # {}
    THEN Some(Msg("required_if", check_required_if(p),
                  "but all of the following are missing"))
    ELSE IF check_mutually_exclusive(p)
    THEN Some(Msg("mutually_exclusive", {"purge_date", "purge_number"},
                  "parameters are mutually exclusive"))
    ELSE Nothing
\* The constructor's checks in the order ansible.module_utils.basic runs
\* them: the mutually exclusive parameters are checked "early", on the keys
\* as supplied, before the required arguments, the choices and required_if
AnsibleModule(p) ==
    IF check_mutually_exclusive(p)
    THEN Some(Msg("mutually_exclusive", {"purge_date", "purge_number"},
                  "parameters are mutually exclusive"))
    ELSE IF p.command = None
    THEN Some(Msg("required", {"command"}, "missing required arguments"))
    ELSE IF p.command \notin Commands
    THEN Some(Msg("choices", {"command"}, "value of command must be one of"))
    ELSE IF check_required_if(p) # {}
    THEN Some(Msg("required_if", check_required_if(p),
                  "but all of the following are missing"))
    ELSE Nothing

Construct ==
    /\ pc = "AnsibleModule"
    /\ IF AnsibleModule(params) # Nothing
       THEN fail_json(AnsibleModule(params)[1], FALSE)
       ELSE pc' = "HAS_VM_MANAGER" /\ UNCHANGED exits
    /\ UNCHANGED <<params, HAS_VM_MANAGER, calls, result>>

\* ------------------------------------------------ if not HAS_VM_MANAGER
CheckImport ==
    /\ pc = "HAS_VM_MANAGER"
    /\ IF ~HAS_VM_MANAGER
       THEN fail_json(Msg("import", {"vm_manager"},
                          "The vm_manager module is not importable"), FALSE)
       ELSE pc' = "check_parameters" /\ UNCHANGED exits
    /\ UNCHANGED <<params, HAS_VM_MANAGER, calls, result>>

\* --------------------------------------------------------- check_parameters
\* `not value` for a str parameter
Falsy(value) == value = None \/ value = ""
\* One check_parameters call: parameters is the dict in insertion order, as
\* <<var_name, value>> pairs; the first falsy value fails
check_parameters(command, parameters, cmds) ==
    IF command \in cmds /\ \E i \in 1..Len(parameters) : Falsy(parameters[i][2])
    THEN LET i == CHOOSE i \in 1..Len(parameters) :
                    /\ Falsy(parameters[i][2])
                    /\ \A j \in 1..(i - 1) : ~Falsy(parameters[j][2])
         IN  Some(Msg("check_parameters", {parameters[i][1]}, command))
    ELSE Nothing
vm_name_command_list == Commands \ {"list_vms"}
\* The five check_parameters calls of run_module, in order
check_parameters_calls(p) ==
    << check_parameters(p.command, << <<"name", p.name>> >>, vm_name_command_list),
       check_parameters(p.command, << <<"system_image", p.system_image>>,
                                      <<"vm_config", p.xml>> >>, {"create"}),
       check_parameters(p.command, << <<"src_name", p.src_name>> >>, {"clone"}),
       check_parameters(p.command, << <<"metadata_name", p.metadata_name>> >>,
                        {"get_metadata"}),
       check_parameters(p.command, << <<"snapshot_name", p.snapshot_name>> >>,
                        {"create_snapshot", "remove_snapshot", "rollback_snapshot"}) >>
\* The failure of the first failing call, if any
first_check_failure(p) ==
    LET cs == check_parameters_calls(p)
    IN  IF \E i \in 1..Len(cs) : cs[i] # Nothing
        THEN cs[CHOOSE i \in 1..Len(cs) :
                  cs[i] # Nothing /\ \A j \in 1..(i - 1) : cs[j] = Nothing]
        ELSE Nothing

CheckParameters ==
    /\ pc = "check_parameters"
    /\ IF first_check_failure(params) # Nothing
       THEN fail_json(first_check_failure(params)[1], FALSE)
       ELSE pc' = "try" /\ UNCHANGED exits
    /\ UNCHANGED <<params, HAS_VM_MANAGER, calls, result>>

\* ------------------------------------------------------------ the try block
\* (mutant: list_snapshots stores under the key its documentation names)
result_key_documented(command) ==
    CASE command = "list_vms"       -> "list_vms"
      [] command = "status"         -> "status"
      [] command = "list_snapshots" -> "list_snapshots"
      [] command = "list_metadata"  -> "list_metadata"
      [] command = "get_metadata"   -> "metadata_value"
      [] OTHER                      -> None
\* The key of the result dict that the command's branch assigns, if any
result_key(command) ==
    CASE command = "list_vms"       -> "list_vms"
      [] command = "status"         -> "status"
      [] command = "list_snapshots" -> "list_snapshot"
      [] command = "list_metadata"  -> "list_metadata"
      [] command = "get_metadata"   -> "metadata_value"
      [] OTHER                      -> None

\* The vm_manager call of the command's branch: operation, positional and
\* keyword arguments (date_time is the purge_image branch's local)
vm_manager_call(p, date_time) ==
    LET Positional(op, args) == [op |-> op, args |-> args, kwargs |-> <<>>]
    IN
    CASE p.command = "list_vms" -> Positional("list_vms", <<>>)
      [] p.command = "create" ->
            [op |-> "create", args |-> <<p.name, p.xml, p.system_image>>,
             kwargs |-> [force |-> p.force, enable |-> p.enable,
                         metadata |-> p.metadata,
                         preferred_host |-> p.preferred_host,
                         pinned_host |-> p.pinned_host]]
      [] p.command = "clone" ->
            [op |-> "clone", args |-> <<p.src_name, p.name>>,
             kwargs |-> [base_xml |-> p.xml, force |-> p.force,
                         enable |-> p.enable, metadata |-> p.metadata,
                         preferred_host |-> p.preferred_host,
                         pinned_host |-> p.pinned_host,
                         clear_constraint |-> p.clear_constraint]]
      [] p.command = "remove"  -> Positional("remove", <<p.name>>)
      [] p.command = "start"   -> Positional("start", <<p.name>>)
      [] p.command = "stop"    -> Positional("stop", <<p.name>>)
      [] p.command = "disable" -> Positional("disable_vm", <<p.name>>)
      [] p.command = "status"  -> Positional("status", <<p.name>>)
      [] p.command = "enable"  -> Positional("enable_vm", <<p.name>>)
      [] p.command = "create_snapshot" ->
            Positional("create_snapshot", <<p.name, p.snapshot_name>>)
      [] p.command = "purge_image" ->
            [op |-> "purge_image", args |-> <<p.name>>,
             kwargs |-> [date |-> date_time, number |-> p.purge_number]]
      [] p.command = "remove_snapshot" ->
            Positional("remove_snapshot", <<p.name, p.snapshot_name>>)
      [] p.command = "list_snapshots" ->
            Positional("list_snapshots", <<p.name>>)
      [] p.command = "rollback_snapshot" ->
            Positional("rollback_snapshot", <<p.name, p.snapshot_name>>)
      [] p.command = "list_metadata" ->
            Positional("list_metadata", <<p.name>>)
      [] p.command = "get_metadata" ->
            Positional("get_metadata", <<p.name, p.metadata_name>>)

\* (mutant: the handler reports a fixed message and no trace)
except_handler_generic(e) == FailJson(Msg("exception", {}, "command failed"), FALSE)
\* except Exception as e: fail_json(msg=to_native(e), exception=traceback)
except_handler(e) == FailJson(Msg("exception", {}, e), TRUE)

\* The call is made; vm_manager returns a value, which the branch stores
\* under its key, or raises, which the except clause reports
Invoke(c, key) ==
    \/ \E r \in ReturnValues(c.op) :
         /\ calls' = Append(calls, [op |-> c.op, args |-> c.args,
                                    kwargs |-> c.kwargs,
                                    returned |-> Some(r), raised |-> Nothing])
         /\ result' = IF key = None THEN result
                      ELSE [k \in DOMAIN result \cup {key} |->
                               IF k = key THEN r ELSE result[k]]
         /\ pc' = "exit_json"
         /\ UNCHANGED exits
    \/ \E e \in CapabilityErrors :
         /\ calls' = Append(calls, [op |-> c.op, args |-> c.args,
                                    kwargs |-> c.kwargs,
                                    returned |-> Nothing, raised |-> Some(e)])
         /\ exits' = Append(exits, except_handler(e))
         /\ pc' = "done"
         /\ UNCHANGED result

\* elif command == "create"
TryCreate ==
    /\ pc = "try"
    /\ params.command = "create"
    /\ IF ~isfile(params.system_image)
       THEN /\ fail_json(Msg("image", {"system_image"},
                             "doesn't exist or is not a file"), FALSE)
            /\ UNCHANGED <<calls, result>>
       ELSE Invoke(vm_manager_call(params, Nothing), result_key(params.command))
    /\ UNCHANGED <<params, HAS_VM_MANAGER>>

\* `if purge_date:` - supplied and not an empty dict
purge_date_set(pd) == pd # Nothing /\ DOMAIN pd[1] # {}
\* (mutant: the test forgets a time given without a date)
date_time_apart_date_only(d) ==
    "date" \in DOMAIN d /\ "time" \notin DOMAIN d
\* date and time must be set together
date_time_apart(d) ==
    \/ "date" \in DOMAIN d /\ "time" \notin DOMAIN d
    \/ "time" \in DOMAIN d /\ "date" \notin DOMAIN d
\* date/time, iso_8601 and posix are mutually exclusive
encodings_overlap(d) ==
    \/ "date" \in DOMAIN d /\ ("posix" \in DOMAIN d \/ "iso_8601" \in DOMAIN d)
    \/ "posix" \in DOMAIN d /\ "iso_8601" \in DOMAIN d
\* The date_time the branch computes from a dict that passed both tests:
\* Some(datetime), Some(ValueError) when a constructor raises, or Nothing
resolve_date_time(d) ==
    IF "date" \in DOMAIN d
    THEN Some(datetime_combine(date_fromisoformat(d.date),
                               time_fromisoformat(d.time)))
    ELSE IF "iso_8601" \in DOMAIN d
    THEN Some(datetime_fromisoformat(d.iso_8601))
    ELSE IF "posix" \in DOMAIN d
    THEN Some(datetime_fromtimestamp(d.posix))
    ELSE Nothing

\* elif command == "purge_image"
TryPurgeImage ==
    /\ pc = "try"
    /\ params.command = "purge_image"
    /\ IF purge_date_set(params.purge_date) /\ date_time_apart(params.purge_date[1])
       THEN /\ fail_json(Msg("purge_date", {"date", "time"},
                             "date and time must be set together"), FALSE)
            /\ UNCHANGED <<calls, result>>
       ELSE IF purge_date_set(params.purge_date)
               /\ encodings_overlap(params.purge_date[1])
       THEN /\ fail_json(Msg("purge_date", {"date", "time", "iso_8601", "posix"},
                             "date/time, iso_8601 and posix are mutually exclusive"),
                         FALSE)
            /\ UNCHANGED <<calls, result>>
       ELSE LET date_time == IF purge_date_set(params.purge_date)
                             THEN resolve_date_time(params.purge_date[1])
                             ELSE Nothing
            IN  IF date_time # Nothing /\ IsError(date_time[1])
                THEN /\ exits' = Append(exits, except_handler("ValueError"))
                     /\ pc' = "done"
                     /\ UNCHANGED <<calls, result>>
                ELSE Invoke(vm_manager_call(params, date_time),
                            result_key(params.command))
    /\ UNCHANGED <<params, HAS_VM_MANAGER>>

\* The other branches of the if/elif chain, and its else
TryCall ==
    /\ pc = "try"
    /\ params.command \notin {"create", "purge_image"}
    /\ IF params.command \in Commands
       THEN Invoke(vm_manager_call(params, Nothing), result_key(params.command))
       ELSE /\ fail_json(Msg("not_implemented", {"command"},
                             "command is not implemented yet"), FALSE)
            /\ UNCHANGED <<calls, result>>
    /\ UNCHANGED <<params, HAS_VM_MANAGER>>

\* module.exit_json(**result)
Exit ==
    /\ pc = "exit_json"
    /\ exits' = Append(exits, ExitJson(result))
    /\ pc' = "done"
    /\ UNCHANGED <<params, HAS_VM_MANAGER, calls, result>>

Next ==
    \/ Construct
    \/ CheckImport
    \/ CheckParameters
    \/ TryCreate
    \/ TryPurgeImage
    \/ TryCall
    \/ Exit

Spec == Init /\ [][Next]_vars
\* run_module runs to its exit without waiting on anything
FairSpec == Spec /\ WF_vars(Next)

TypeOK ==
    /\ pc \in {"AnsibleModule", "HAS_VM_MANAGER", "check_parameters", "try",
               "exit_json", "done"}
    /\ Len(calls) <= 1

\* ================================================================ properties
Done == pc = "done"
Failed == exits # <<>> /\ exits[1].call = "fail_json"
Succeeded == exits # <<>> /\ exits[1].call = "exit_json"
FailureKind == exits[1].msg.kind
BothPurge == params.purge_date # Nothing /\ params.purge_number # Nothing
MissingFieldKinds == {"required_if", "check_parameters"}

\* The required-field table of the specification (config is the xml
\* parameter, which check_parameters reports as vm_config)
TableRequired(command) ==
    CASE command = "create" -> {"name", "xml", "system_image"}
      [] command = "clone"  -> {"name", "src_name", "xml"}
      [] command \in {"remove", "start", "stop", "status", "enable", "disable",
                      "purge_image", "list_snapshots", "list_metadata"}
                            -> {"name"}
      [] command \in {"create_snapshot", "remove_snapshot", "rollback_snapshot"}
                            -> {"name", "snapshot_name"}
      [] command = "get_metadata" -> {"name", "metadata_name"}
      [] OTHER -> {}
NamesField(msg, f) == f \in msg.names \/ (f = "xml" /\ "vm_config" \in msg.names)
\* f is the only thing wrong with the request
OnlyFault(f) ==
    /\ HAS_VM_MANAGER
    /\ ~BothPurge
    /\ \A g \in TableRequired(params.command) \ {f} : ~Falsy(params[g])

\* C1: for every command and every field its table row lists, a request that
\* leaves the field absent or empty ends in a failure with no vm_manager
\* call, and the failure is a missing-field failure naming the field (the
\* naming is required when the field is the request's only fault).
C1_MissingFieldFails ==
    Done =>
      \A f \in TableRequired(params.command) :
        Falsy(params[f]) =>
          /\ calls = <<>>
          /\ Failed
          /\ OnlyFault(f) => /\ FailureKind \in MissingFieldKinds
                             /\ NamesField(exits[1].msg, f)

\* C2: a request that supplies both purge_date and purge_number never gets
\* past the constructor: it ends in the mutual-exclusion failure with no
\* vm_manager call, whatever the command and the other fields; and every
\* purge_image call has a null date or a null number.
C2_PurgeMutualExclusion ==
    /\ BothPurge =>
         /\ calls = <<>>
         /\ pc \in {"AnsibleModule", "done"}
         /\ Done => Failed /\ FailureKind = "mutually_exclusive"
    /\ \A i \in 1..Len(calls) :
         calls[i].op = "purge_image" =>
           calls[i].kwargs.date = Nothing \/ calls[i].kwargs.number = Nothing
C2_Witness ==
    /\ Done /\ BothPurge /\ HAS_VM_MANAGER
    /\ params.command = "purge_image" /\ params.name = "guest0"
    /\ Failed /\ FailureKind = "mutually_exclusive" /\ calls = <<>>

\* Shapes of a supplied purge_date, by its key set
PurgeKeySet == IF params.purge_date = Nothing THEN {}
               ELSE DOMAIN params.purge_date[1]
Incomplete(K) == ("date" \in K) # ("time" \in K)
EncodingsPresent(K) ==
    {e \in {"date+time", "iso_8601", "posix"} :
        \/ e = "date+time" /\ "date" \in K /\ "time" \in K
        \/ e = "iso_8601" /\ "iso_8601" \in K
        \/ e = "posix" /\ "posix" \in K}
OverSpecified(K) == Cardinality(EncodingsPresent(K)) > 1

\* C3 as stated: a request whose purge_date is incomplete or over-specified
\* always ends in a failure with no vm_manager call.
C3_AnyCommand ==
    Done /\ (Incomplete(PurgeKeySet) \/ OverSpecified(PurgeKeySet))
      => Failed /\ calls = <<>>
\* C3 amended: a purge_image request whose purge_date is incomplete or
\* over-specified always ends in a failure with no vm_manager call; a
\* purge_image request with no encoding present, and nothing else wrong,
\* calls purge_image with date None and fails only if that call raises.
C3_PurgeImageShape ==
    Done /\ params.command = "purge_image" =>
      /\ Incomplete(PurgeKeySet) \/ OverSpecified(PurgeKeySet)
           => Failed /\ calls = <<>>
      /\ PurgeKeySet = {} /\ HAS_VM_MANAGER /\ ~BothPurge /\ ~Falsy(params.name)
           => /\ Len(calls) = 1
              /\ calls[1].op = "purge_image"
              /\ calls[1].kwargs.date = Nothing
              /\ Failed => calls[1].raised # Nothing
C3_Witness ==
    /\ Done /\ params.command = "purge_image" /\ params.name = "guest0"
    /\ HAS_VM_MANAGER /\ ~BothPurge
    /\ PurgeKeySet = {"time"}
    /\ Failed /\ FailureKind = "purge_date" /\ calls = <<>>

\* C4: for every instant m, a purge_date that writes m as date+time, as an
\* ISO 8601 string or as milliseconds since the epoch makes purge_image
\* receive the same datetime, the one that denotes m.
C4_ResolverAgreement ==
    \A m \in 0..MaxMinute :
      \A K \in {{"date", "time"}, {"iso_8601"}, {"posix"}} :
        params.purge_date = Some(PurgeDict(K, m, FALSE)) =>
          \A i \in 1..Len(calls) :
            calls[i].op = "purge_image" =>
              calls[i].kwargs.date = Some(CanonicalTimestamp(m))

\* C5 as stated: a create request whose system_image is a path that is not
\* an existing file ends in the image-not-found failure with no vm_manager
\* call, whatever the other fields.
C5_AlwaysImageFailure ==
    Done /\ params.command = "create" /\ ~Falsy(params.system_image)
         /\ params.system_image \notin ExistingFiles
      => Failed /\ FailureKind = "image" /\ calls = <<>>
\* C5 amended: such a request never reaches a vm_manager call and ends in a
\* failure, whatever the other fields; the failure is the image-not-found
\* failure when the earlier checks pass (purge_date and purge_number not both
\* supplied, name and xml non-empty, vm_manager importable).
C5_MissingImageNeverCreates ==
    params.command = "create" /\ params.system_image \notin ExistingFiles =>
      /\ calls = <<>>
      /\ Done => Failed
      /\ Done /\ ~Falsy(params.system_image) /\ ~BothPurge /\ HAS_VM_MANAGER
           /\ ~Falsy(params.name) /\ ~Falsy(params.xml)
           => FailureKind = "image"
C5_Witness ==
    /\ Done /\ params.command = "create" /\ params.system_image = "/tmp/x.qcow2"
    /\ Failed /\ FailureKind = "image" /\ calls = <<>>

\* The request passes every validation check the specification lists:
\* supported command, required fields of the table, purge mutual exclusion,
\* purge_date shape (for purge_image) and image existence (for create)
WellFormedPurgeDate ==
    \/ params.purge_date = Nothing
    \/ \E m \in 0..MaxMinute :
         params.purge_date[1] = PurgeDict(PurgeKeySet, m, FALSE)
PassesValidation ==
    /\ params.command \in Commands
    /\ \A f \in TableRequired(params.command) : ~Falsy(params[f])
    /\ ~BothPurge
    /\ params.command = "purge_image" =>
         /\ ~Incomplete(PurgeKeySet) /\ ~OverSpecified(PurgeKeySet)
         /\ WellFormedPurgeDate
    /\ params.command = "create" => params.system_image \in ExistingFiles

\* C6: an invocation makes at most one vm_manager call: exactly one when
\* validation succeeds (and vm_manager is importable), none when any
\* validation check fails.
C6_OneCallIffValid ==
    /\ Len(calls) <= 1
    /\ Done => /\ PassesValidation /\ HAS_VM_MANAGER => Len(calls) = 1
               /\ ~PassesValidation => calls = <<>>

\* The output key of each command that returns data
OutputKey(command) ==
    CASE command = "list_vms"       -> "list_vms"
      [] command = "status"         -> "status"
      [] command = "get_metadata"   -> "metadata_value"
      [] command = "list_metadata"  -> "list_metadata"
      [] command = "list_snapshots" -> "list_snapshot"
      [] OTHER                      -> None
MissingTableField == \E f \in TableRequired(params.command) : Falsy(params[f])
MissingImage == /\ params.command = "create"
                /\ ~Falsy(params.system_image)
                /\ params.system_image \notin ExistingFiles
\* C8 as stated: the required-field check precedes the mutual-exclusion
\* check, which precedes the image check.
C8_RequiredFirst ==
    Done =>
      /\ BothPurge /\ MissingTableField
           => Failed /\ FailureKind \in MissingFieldKinds
      /\ BothPurge /\ ~MissingTableField /\ MissingImage
           => Failed /\ FailureKind = "mutually_exclusive"
\* C8 amended: the mutual-exclusion check runs first, then the required-field
\* check, then the image check of create, and the first failing check is the
\* one reported: a request that violates a required-field rule and the
\* mutual exclusion is reported as the mutual-exclusion failure, so is a
\* create request that violates the mutual exclusion and names a missing
\* image; a create request (vm_manager importable) that violates a
\* required-field rule and names a missing image is reported as the
\* missing-field failure.
C8_ExclusionFirst ==
    Done =>
      /\ BothPurge /\ MissingTableField
           => Failed /\ FailureKind = "mutually_exclusive"
      /\ BothPurge /\ MissingImage
           => Failed /\ FailureKind = "mutually_exclusive"
      /\ ~BothPurge /\ HAS_VM_MANAGER /\ MissingTableField /\ MissingImage
           => Failed /\ FailureKind \in MissingFieldKinds
C8_Witness ==
    /\ Done /\ BothPurge /\ params.command = "create"
    /\ Falsy(params.name) /\ MissingImage
    /\ Failed /\ FailureKind = "mutually_exclusive"

\* The capability interface: operation and argument list per command
InterfaceCall(p) ==
    CASE p.command = "list_vms" -> <<"list_vms", <<>> >>
      [] p.command = "create" ->
           <<"create", <<p.name, p.xml, p.system_image, p.force, p.enable,
                         p.metadata, p.preferred_host, p.pinned_host>> >>
      [] p.command = "clone" ->
           <<"clone", <<p.src_name, p.name, p.xml, p.force, p.enable,
                        p.metadata, p.preferred_host, p.pinned_host,
                        p.clear_constraint>> >>
      [] p.command = "remove"  -> <<"remove", <<p.name>> >>
      [] p.command = "start"   -> <<"start", <<p.name>> >>
      [] p.command = "stop"    -> <<"stop", <<p.name, p.force>> >>
      [] p.command = "enable"  -> <<"enable_vm", <<p.name>> >>
      [] p.command = "disable" -> <<"disable_vm", <<p.name>> >>
      [] p.command = "status"  -> <<"status", <<p.name>> >>
      [] p.command = "create_snapshot" ->
           <<"create_snapshot", <<p.name, p.snapshot_name>> >>
      [] p.command = "remove_snapshot" ->
           <<"remove_snapshot", <<p.name, p.snapshot_name>> >>
      [] p.command = "list_snapshots" -> <<"list_snapshots", <<p.name>> >>
      [] p.command = "rollback_snapshot" ->
           <<"rollback_snapshot", <<p.name, p.snapshot_name>> >>
      [] p.command = "purge_image" ->
           <<"purge_image", <<p.name, p.purge_number>> >>
      [] p.command = "list_metadata" -> <<"list_metadata", <<p.name>> >>
      [] p.command = "get_metadata" ->
           <<"get_metadata", <<p.name, p.metadata_name>> >>
\* The arguments of a recorded call in interface order (the date of
\* purge_image is left to C4)
KeywordOrder(op) ==
    CASE op = "create" -> <<"force", "enable", "metadata", "preferred_host",
                            "pinned_host">>
      [] op = "clone"  -> <<"base_xml", "force", "enable", "metadata",
                            "preferred_host", "pinned_host", "clear_constraint">>
      [] op = "purge_image" -> <<"number">>
      [] OTHER -> <<>>
ArgumentList(c) ==
    c.args \o [i \in 1..Len(KeywordOrder(c.op)) |-> c.kwargs[KeywordOrder(c.op)[i]]]
\* C9: every vm_manager call is the operation of the request's command with
\* the interface's arguments taken from the request: stop(name, force),
\* clone(src_name, name, config, force, enable, metadata, preferred_host,
\* pinned_host, clear_constraint), purge_image(name, date, purge_number)
\* with a date exactly when an encoding was supplied.
C9_CallShape ==
    \A i \in 1..Len(calls) :
      /\ calls[i].op = InterfaceCall(params)[1]
      /\ Len(ArgumentList(calls[i])) = Len(InterfaceCall(params)[2])
      /\ ArgumentList(calls[i]) = InterfaceCall(params)[2]
      /\ calls[i].op = "purge_image" =>
           (calls[i].kwargs.date = Nothing <=> PurgeKeySet = {})

\* C10 (state part): at most one exit and one call; a call that raised is
\* followed at once by the single fail_json carrying the raised message and
\* a trace, with no output and no result key; a finished invocation has
\* exactly one exit, a fail_json with a message or the exit_json of result.
C10_OneOutcome ==
    /\ Len(exits) <= 1
    /\ Len(calls) <= 1
    /\ Done <=> Len(exits) = 1
    /\ \A i \in 1..Len(calls) :
         calls[i].raised # Nothing =>
           /\ Done
           /\ exits = <<FailJson(Msg("exception", {}, calls[i].raised[1]), TRUE)>>
           /\ exits[1].output = <<>>
           /\ result = <<>>
    /\ Done => \/ /\ Failed
                  /\ exits[1].msg.text # ""
                  /\ exits[1].output = <<>>
               \/ /\ Succeeded
                  /\ exits[1].output = result
                  /\ \A i \in 1..Len(calls) : calls[i].raised = Nothing
\* C10: a failure raised by the single vm_manager call ends the invocation
\* in exactly one failure result carrying the original message and a trace,
\* with no output key and no second call; and every invocation terminates
\* with exactly one outcome, the output or a well-formed failure.
C10_CapabilityFailure == []C10_OneOutcome /\ <>Done
C10_Witness ==
    /\ Done /\ Len(calls) = 1 /\ calls[1].raised = Some("VM guest0 does not exist")
    /\ Failed /\ exits[1].msg.text = "VM guest0 does not exist"
    /\ exits[1].exception

====
